---- MODULE Spec2Model ----
(***************************************************************************)
(* Event bus adapters of agent_project.infrastructure.event_bus:           *)
(*   InMemoryEventBus (adapters/in_memory.py) and                          *)
(*   RedisEventBus    (adapters/redis.py),                                 *)
(* both implementing the EventBus port (ports.py).                         *)
(*                                                                         *)
(* One bus instance is wired in (impl).  Caller tasks run publish,         *)
(* subscribe and unsubscribe on it; every suspension point of a coroutine  *)
(* (an awaited Redis call, an awaited handler, asyncio.gather) ends one    *)
(* step of the model.  The Redis server, its pub/sub fan-out and its       *)
(* streams are modelled as the part of the state the adapter talks to.     *)
(***************************************************************************)
EXTENDS Integers, Sequences, FiniteSets, TLC

VARIABLES
    impl,               \* which EventBus implementation is wired in
    active,             \* the caller tasks that exist in this run
    classes,            \* the event classes the application uses in this run
    watch,              \* the id of the event whose history is kept
    inner_bus,          \* LoggingEventBus._inner_bus is set (to the bus impl names)
    budget,             \* calls and injected faults left out of the run's bounds
    task,               \* per caller task: the coroutine it is in and where
    nEvents,            \* number of events constructed so far (their ids are 1..nEvents)
    ev,                 \* history of the observed event
    reg,                \* history: what the completed calls say about probe, per class
    subscribers,        \* InMemoryEventBus._subscribers
    published_events,   \* InMemoryEventBus._published_events
    handlers,           \* RedisEventBus._handlers
    subscribed_channels,\* RedisEventBus._subscribed_channels
    running,            \* RedisEventBus._running
    connected,          \* RedisEventBus._connected
    redis_client,       \* RedisEventBus.redis_client / pubsub_client are set
    connection_pool,    \* RedisEventBus.connection_pool: 0 for None, k for the k-th pool made
    pubsub,             \* RedisEventBus.pubsub is set
    connection_lock,    \* RedisEventBus._connection_lock: its holder
    server,             \* the Redis server: the pub/sub connection's channels and inbox, streams
    listener,           \* the _message_listener task and its _handle_message position
    strays,             \* the listener tasks _subscriber_task no longer names, not ended
    life,               \* history: the close calls made, and whether the bus was used since
    correlation_context,\* correlation.correlation_context: the id it holds in each task's context
    own,                \* history: the id each task's context got from the task itself
    made                \* the event objects constructed so far, by id

vars == <<impl, active, classes, watch, inner_bus, budget, task, nEvents, ev, reg, subscribers,
          published_events, handlers, subscribed_channels, running, connected,
          redis_client, connection_pool, pubsub, connection_lock, server, listener, strays,
          life, correlation_context, own, made>>

contexts == <<correlation_context, own>>
scenario == <<impl, active, classes, watch, inner_bus>>
memVars == <<subscribers, published_events>>
redisVars == <<handlers, subscribed_channels, running, connected, redis_client, connection_pool, pubsub,
               connection_lock, server, listener>>

----------------------------------------------------------------------------
(* Bounds of the model *)

MaxEvents == 2          \* events published in one run
MaxCalls == 3           \* subscribe and unsubscribe calls made in one run
MaxFaults == 1          \* transport errors and listener exits injected in one run
MaxCloses == 2          \* close calls made in one run

----------------------------------------------------------------------------
(* The universe: tasks, handlers, event classes *)

Tasks == {"t1", "t2"}
Handlers == {"h1", "h2"}

\* The handler whose deliveries the history observes.  Handlers are
\* interchangeable (every call takes any of them), so what holds of probe
\* holds of each.
probe == "h1"

\* Three concrete DomainEvent classes.  app.SubTaskEvent subclasses
\* app.TaskEvent; other.TaskEvent is an unrelated class of another module
\* that has the same __name__ as app.TaskEvent.
Types == {"app.TaskEvent", "app.SubTaskEvent", "other.TaskEvent"}

\* DomainEvent.event_type / type.__name__: the simple class name.
TypeName(T) ==
    CASE T = "app.TaskEvent" -> "TaskEvent"
      [] T = "app.SubTaskEvent" -> "SubTaskEvent"
      [] T = "other.TaskEvent" -> "TaskEvent"

\* correlation ids: the id of the module's default context and two ids an
\* application sets
DefaultId == "c0"
Ids == {DefaultId, "c1", "c2"}

\* the asyncio tasks that have a context of their own
Contexts == Tasks \cup {"listener"}

NoType == "NoType"
NoHandler == "NoHandler"
NoPayload == "NoPayload"

----------------------------------------------------------------------------
(* Python list and dict helpers *)

\* x in list
InList(s, x) == \E i \in 1..Len(s) : s[i] = x

\* the list without its i-th element
RemoveAt(s, i) == [j \in 1..(Len(s) - 1) |-> IF j < i THEN s[j] ELSE s[j + 1]]

\* list.remove(x): drops the first occurrence of x (the caller checks x in list)
ListRemove(s, x) ==
    LET i == CHOOSE k \in 1..Len(s) : s[k] = x /\ \A j \in 1..(k - 1) : s[j] # x
    IN  RemoveAt(s, i)

\* number of occurrences of x in the list
Count(s, x) == Cardinality({i \in 1..Len(s) : s[i] = x})

\* dict.get(k, [])
DictGet(d, k) == IF k \in DOMAIN d THEN d[k] ELSE <<>>

\* defaultdict(list)[k]: reading a missing key inserts k -> []
Touch(d, k) == IF k \in DOMAIN d THEN d ELSE d @@ (k :> <<>>)

\* d[k] = v
DictSet(d, k, v) == [x \in (DOMAIN d) \cup {k} |-> IF x = k THEN v ELSE d[x]]

\* del d[k]
DictDel(d, k) == [x \in (DOMAIN d) \ {k} |-> d[x]]

EmptyDict == <<>>

----------------------------------------------------------------------------
(* History: one observed handler (probe) and one observed event (ev) *)

\* a subscribe or unsubscribe call is within the run's bound
CallAllowed == budget.calls < MaxCalls
CallMade == [budget EXCEPT !.calls = @ + 1]

\* a Redis call or the listener's read ends as outcome says; an outcome
\* other than "ok" is an injected fault, within the run's bound (budget.limit)
Outcome(outcome) ==
    IF outcome = "ok" THEN UNCHANGED budget
    ELSE /\ budget.faults < budget.limit
         /\ budget' = [budget EXCEPT !.faults = @ + 1]

\* What the calls made so far say about <<T, probe>>:
\*   "never"         no subscribe(T, probe) has touched the registry
\*   "subscribed"    a subscribe(T, probe) completed, no unsubscribe called since
\*   "twice"         as "subscribed", and a second subscribe(T, probe) completed
\*   "unsubscribed"  an unsubscribe(T, probe) completed, no subscribe called since
\*   "changing"      a subscribe or unsubscribe is under way, or it raised
RegSet(T, h, status) == IF h = probe THEN [reg EXCEPT ![T] = status] ELSE reg

\* the status once one more subscribe(T, probe) has completed
Again(status) == IF status \in {"subscribed", "twice"} THEN "twice" ELSE "subscribed"

NoEvent ==
    [id |-> 0, ty |-> NoType, regAt |-> "none", res |-> "none", calls |-> 0,
     raised |-> FALSE, stable |-> TRUE, dispatched |-> FALSE, tried |-> {},
     failed |-> "none", sent |-> <<>>, afterClose |-> FALSE, ambient |-> DefaultId,
     observed |-> <<>>, pending |-> 0, arrived |-> FALSE, disorder |-> FALSE]

\* The observed event e of class T, as publish is called.  regAt: what the
\* completed calls said about <<T, probe>> then ("changing" once a later call
\* for <<T, probe>> reaches the registry); res: what publish gave its
\* caller; calls: how often probe was invoked with e; raised: another handler
\* raised on e; stable: no call has changed the registry since; dispatched:
\* _handle_message is over for e; tried: the transport steps publish
\* attempted; failed: the step that ended in a transport error; sent: the
\* message the server got on the channel, if it got one; afterClose: a close
\* call had returned before; ambient: get_correlation_id() of the publisher as
\* publish was called; observed: get_correlation_id() in probe, when the
\* listener invoked it with e; pending: the handler invocations publish has
\* begun for e (in-memory bus) that have neither returned nor raised;
\* arrived: the server has put e's message on the bus's pub/sub connection;
\* disorder: probe got an event out of the order of arrival, e being one of
\* the two.
NewEvent(e, T) ==
    [NoEvent EXCEPT !.id = e, !.ty = T, !.regAt = reg[T], !.res = "pending",
                    !.afterClose = life.state # "open"]

\* handler h has been invoked with event e and returned or raised
Invoked(r, e, h, outcome) ==
    IF r.id # e THEN r
    ELSE IF h = probe THEN [r EXCEPT !.calls = @ + 1]
    ELSE [r EXCEPT !.raised = @ \/ (outcome = "raise")]

\* publish has handed e to n handlers; one of them has run to its end
Begun(r, e, n) == IF r.id = e THEN [r EXCEPT !.pending = n] ELSE r
Ended(r, e) == IF r.id = e THEN [r EXCEPT !.pending = @ - 1] ELSE r

SetResult(r, e, res) == IF r.id = e THEN [r EXCEPT !.res = res] ELSE r

\* a subscribe or unsubscribe for <<T, h>> reaches the registry
RegistryCall(r, T, h) ==
    IF r.id = 0 THEN r
    ELSE [r EXCEPT !.regAt = IF h = probe /\ r.ty = T THEN "changing" ELSE @,
                   !.stable = FALSE]

\* The life of the bus: "open" until a close call has returned, "closed" from
\* then until the next subscribe call, "reused" from that call on (until a
\* close returns again); closes counts the close calls made.
Closed(l) == [l EXCEPT !.state = "closed"]
Reused(l) == [l EXCEPT !.state = IF @ = "closed" THEN "reused" ELSE @]

IdleTask == [pc |-> "idle", op |-> "none", ty |-> NoType, h |-> NoHandler,
             ev |-> 0, todo |-> <<>>, escaped |-> FALSE, noop |-> FALSE,
             ser |-> NoPayload, res |-> "none", inEnsure |-> FALSE,
             waited |-> FALSE, probed |-> 0]

\* the task's coroutine is over with result r; op, noop and res stay until its
\* next call, and so does inEnsure: the call ended inside _ensure_connection;
\* waited (history): the call had to wait for the connection lock; probed
\* (history): the pool whose client the call's liveness probe was awaited on
Returned(t, r) == [IdleTask EXCEPT !.op = task[t].op, !.noop = task[t].noop, !.res = r]

----------------------------------------------------------------------------
(* correlation.py and domain/events/base.py *)

\* a module-level variable in place of the ContextVar: a set is seen everywhere
ContextSet_Global(ctx, u, c) == [v \in DOMAIN ctx |-> c]

\* set_correlation_id / set_correlation_context run in task u:
\* ContextVar.set changes the value in the current context only
ContextSet(ctx, u, c) == [ctx EXCEPT ![u] = c]

\* asyncio.create_task: the new task runs in a copy of the current context
ContextFork(ctx, parent, child) == [ctx EXCEPT ![child] = ctx[parent]]

\* get_correlation_id() called in task u
get_correlation_id(u) == correlation_context[u]

\* An event object as publish gets it.  A DomainEvent carries
\* metadata.correlation_id, by default get_correlation_id() at its
\* construction (EventMetadata, line 16); for any other object
\* correlation_id is what _serialize_event reads at line 140.
EventObject(domain, c) == [domain |-> domain, correlation_id |-> c]

\* the event constructed in the publish call itself: publish(TaskEvent())
FreshEvent(t) == EventObject(TRUE, get_correlation_id(t))

\* set_correlation_id(c) or set_correlation_context(...) in a caller task,
\* between two calls on the bus
SetCorrelationId(t, c) ==
    /\ task[t].pc = "idle"
    /\ correlation_context' = ContextSet(correlation_context, t, c)
    /\ own' = [own EXCEPT ![t] = c]
    /\ UNCHANGED <<scenario, strays, budget, task, nEvents, made, ev, reg, memVars, redisVars,
                   life>>

----------------------------------------------------------------------------
(* InMemoryEventBus *)

\* the history of an event that is over is dropped by the next call; an
\* event of the in-memory bus is over once publish has returned
MemOver(r) == IF r.res # "pending" THEN NoEvent ELSE r

\* publish reaching only the handler subscribed last
MemHandlersFor_Latest(d, T) ==
    LET hs == DictGet(d, T)
    IN  IF hs = <<>> THEN <<>> ELSE <<hs[Len(hs)]>>

\* publish, line 25: the handlers of exactly type(event)
MemHandlersFor(d, T) == DictGet(d, T)

\* _execute_handler: the handler runs; an Exception it raises is caught and
\* printed.  TRUE iff an exception escapes to asyncio.gather.
ExecuteHandlerEscapes(outcome) == FALSE

\* asyncio.gather without return_exceptions: the first exception ends the wait
GatherRemaining_Abort(todo, i, outcome) ==
    IF outcome = "raise" THEN <<>> ELSE RemoveAt(todo, i)

\* asyncio.gather(..., return_exceptions=True): every awaitable runs to its
\* end whatever the others do; the i-th one has just finished.
GatherRemaining(todo, i, outcome) == RemoveAt(todo, i)

\* what publish gives its caller once gather is over
GatherResult(escaped) == "ok"

\* subscribe without the membership test of line 36
MemSubscribed_Append(d, T, h) ==
    LET d1 == Touch(d, T)
    IN  DictSet(d1, T, Append(d1[T], h))

\* subscribe, lines 36-37
MemSubscribed(d, T, h) ==
    LET d1 == Touch(d, T)
    IN  IF ~InList(d1[T], h) THEN DictSet(d1, T, Append(d1[T], h)) ELSE d1

\* unsubscribe, lines 41-42
MemUnsubscribed(d, T, h) ==
    LET d1 == Touch(d, T)
    IN  IF InList(d1[T], h) THEN DictSet(d1, T, ListRemove(d1[T], h)) ELSE d1

\* get_handler_count
get_handler_count(T) == Len(DictGet(subscribers, T))

\* publish up to the await of asyncio.gather (or to its end, with no handler)
MemPublishEvent(t, T, event) ==
    /\ impl = "InMemory"
    /\ task[t].pc = "idle"
    /\ nEvents < MaxEvents
    /\ LET e == nEvents + 1
           hs == MemHandlersFor(subscribers, T)
           r == IF e = watch THEN NewEvent(e, T) ELSE MemOver(ev)
       IN  /\ nEvents' = e
           /\ made' = Append(made, event)
           /\ published_events' = Append(published_events, e)
           /\ IF hs = <<>>
              THEN /\ ev' = SetResult(r, e, "ok")
                   /\ task' = [task EXCEPT ![t] =
                          [IdleTask EXCEPT !.op = "publish", !.res = "ok"]]
              ELSE /\ ev' = Begun(r, e, Len(hs))
                   /\ task' = [task EXCEPT ![t] =
                          [IdleTask EXCEPT !.pc = "gather", !.op = "publish", !.ty = T,
                                           !.ev = e, !.todo = hs]]
    /\ UNCHANGED <<scenario, strays, contexts, life, budget, reg, subscribers, redisVars>>

\* publish(TaskEvent()): the event is constructed in the call
MemPublishCall(t, T) == MemPublishEvent(t, T, FreshEvent(t))

\* one _execute_handler coroutine of the gather runs to its end
MemRunHandler(t, i, outcome) ==
    /\ impl = "InMemory"
    /\ task[t].pc = "gather"
    /\ i \in 1..Len(task[t].todo)
    /\ ev' = Ended(Invoked(ev, task[t].ev, task[t].todo[i], outcome), task[t].ev)
    /\ task' = [task EXCEPT ![t].todo = GatherRemaining(@, i, outcome),
                            ![t].escaped = @ \/ (outcome = "raise"
                                                 /\ ExecuteHandlerEscapes(outcome))]
    /\ UNCHANGED <<scenario, strays, contexts, life, budget, nEvents, made, reg, memVars, redisVars>>

\* a publish that starts the handlers and does not wait for them
GatherOver_Detached(todo) == TRUE

\* publish, lines 27-32: `await asyncio.gather(...)` resumes once every
\* _execute_handler coroutine it was given is done
GatherOver(todo) == todo = <<>>

\* gather is over: publish returns
MemPublishReturn(t) ==
    /\ impl = "InMemory"
    /\ task[t].pc = "gather"
    /\ GatherOver(task[t].todo)
    /\ LET r == GatherResult(task[t].escaped)
       IN  /\ ev' = SetResult(ev, task[t].ev, r)
           /\ task' = [task EXCEPT ![t] = Returned(t, r)]
    /\ UNCHANGED <<scenario, strays, contexts, life, budget, nEvents, made, reg, memVars, redisVars>>

MemSubscribe(t, T, h) ==
    /\ impl = "InMemory"
    /\ task[t].pc = "idle"
    /\ CallAllowed
    /\ budget' = CallMade
    /\ subscribers' = MemSubscribed(subscribers, T, h)
    /\ reg' = RegSet(T, h, Again(reg[T]))
    /\ ev' = RegistryCall(MemOver(ev), T, h)
    /\ task' = [task EXCEPT ![t] = [IdleTask EXCEPT !.op = "subscribe", !.res = "ok"]]
    /\ UNCHANGED <<scenario, strays, contexts, life, nEvents, made, published_events, redisVars>>

MemUnsubscribe(t, T, h) ==
    /\ impl = "InMemory"
    /\ task[t].pc = "idle"
    /\ CallAllowed
    /\ budget' = CallMade
    /\ subscribers' = MemUnsubscribed(subscribers, T, h)
    /\ reg' = RegSet(T, h, "unsubscribed")
    /\ ev' = RegistryCall(MemOver(ev), T, h)
    /\ task' = [task EXCEPT ![t] =
           [IdleTask EXCEPT !.op = "unsubscribe", !.res = "ok",
                            !.noop = ~InList(DictGet(subscribers, T), h)]]
    /\ UNCHANGED <<scenario, strays, contexts, life, nEvents, made, published_events, redisVars>>

----------------------------------------------------------------------------
(* RedisEventBus: names and the wire format *)

\* __init__: key_prefix defaults to "events:"
key_prefix == "events:"

\* _get_channel_name: f"{key_prefix}channel:{event_type.__name__}"
_get_channel_name(T) == <<key_prefix, "channel:", TypeName(T)>>

\* _get_stream_name: f"{key_prefix}stream:{event_type.__name__}"
_get_stream_name(T) == <<key_prefix, "stream:", TypeName(T)>>

\* _handle_message, line 301: channel.replace(f"{key_prefix}channel:", "")
StripChannelPrefix(channel) ==
    IF channel[1] = key_prefix /\ channel[2] = "channel:" THEN channel[3] ELSE channel

\* DomainEvent.to_dict, with EventMetadata.to_dict
to_dict(T, e) ==
    [event_type |-> TypeName(T),
     metadata |-> [event_id |-> e, correlation_id |-> made[e].correlation_id]]

\* _serialize_event, lines 137-141: an object that is no DomainEvent
Fallback(T, e) ==
    [event_type |-> TypeName(T), data |-> e, correlation_id |-> made[e].correlation_id]

\* _serialize_event: json.dumps(event_data, default=str)
_serialize_event(T, e) ==
    <<"json", IF made[e].domain THEN to_dict(T, e) ELSE Fallback(T, e)>>

\* _deserialize_event: json.loads(data), {} unless it is a dict
_deserialize_event(data) == IF data[1] = "json" THEN data[2] ELSE EmptyDict

\* history: the id of the event a payload was made from
EventOf(event_data) ==
    IF "metadata" \in DOMAIN event_data THEN event_data.metadata.event_id
    ELSE event_data.data

\* _handle_message without lines 307-308
Adopt_Skip(ctx, event_data) == ctx

\* _handle_message, lines 307-308: the listener's context after the message:
\* set_correlation_id if the payload has metadata.correlation_id
Adopt(ctx, event_data) ==
    IF "metadata" \in DOMAIN event_data
    THEN ContextSet(ctx, "listener", event_data.metadata.correlation_id)
    ELSE ctx

\* the message a subscribed pub/sub connection gets for PUBLISH channel data
Message(channel, data) == [type |-> "message", channel |-> channel, data |-> data]

\* a server that hands published messages to nobody
Fanout_Lost(srv, channel, data) == srv

\* PUBLISH: the server hands the message to the pub/sub connection iff that
\* connection is subscribed to the channel
Fanout(srv, channel, data) ==
    IF channel \in srv.subs
    THEN [srv EXCEPT !.inbox = Append(@, Message(channel, data))]
    ELSE srv

\* the stream entry under another field name
XaddFields_Data(ser) == [data |-> ser]

\* publish, line 183: the fields of the stream entry
XaddFields(ser) == [event |-> ser]

\* XADD appends the entry to the stream
Xadd(srv, stream, entry) ==
    [srv EXCEPT !.stream = DictSet(@, stream, Append(DictGet(@, stream), entry))]

\* pc: where the listener task is; ev, name, idx: the message _handle_message
\* is dispatching and the position of its loop; live: the list it iterates is
\* still the registry's; hurt (history): a handler raised on a message that
\* came before the observed event
\* ending: cancelled and not yet ended; alive: reading the pub/sub handle
NoStrays == [ending |-> 0, alive |-> 0]

\* asyncio.create_task at line 272 rebinds _subscriber_task: the task it
\* named, unless it has ended, runs on unnamed
Stranded(s, l) ==
    CASE l.pc = "cancelling" -> [s EXCEPT !.ending = @ + 1]
      [] l.pc \in {"listen", "dispatch"} -> [s EXCEPT !.alive = @ + 1]
      [] OTHER -> s

NoListener == [pc |-> "none", ev |-> 0, name |-> NoType, idx |-> 0, live |-> FALSE,
               hurt |-> FALSE]
Listening == [NoListener EXCEPT !.pc = "listen"]

\* the list _handle_message iterates: the registry's list object, which is
\* left empty and out of the registry when unsubscribe deletes the key
DispatchList == IF listener.live THEN DictGet(handlers, listener.name) ELSE <<>>

\* event ids that are still on their way to handlers
InFlight ==
    {EventOf(_deserialize_event(server.inbox[i].data)) : i \in 1..Len(server.inbox)}
    \cup (IF listener.pc = "dispatch" THEN {listener.ev} ELSE {})

\* an event of the Redis bus is over once publish has returned and its
\* message, if any, has been dispatched
RedisOver(r) == IF r.res # "pending" /\ r.id \notin InFlight THEN NoEvent ELSE r

----------------------------------------------------------------------------
(* RedisEventBus: connection *)

\* _ensure_connection without its lock: the caller goes on at once
Locked_Open(t) == FALSE

\* _ensure_connection, line 92: the lock is held by another task
Locked(t) == connection_lock # "free"

\* _ensure_connection, lines 92-112, for a task that does not find the bus
\* connected: it waits for the lock, or takes it, makes a pool and the
\* clients, and awaits the first ping
Connect(t, rec) ==
    IF Locked(t)
    THEN /\ task' = [task EXCEPT ![t] = [rec EXCEPT !.pc = "lock", !.waited = TRUE]]
         /\ UNCHANGED <<redis_client, connection_pool, connection_lock>>
    ELSE /\ task' = [task EXCEPT ![t] = [rec EXCEPT !.pc = "connect"]]
         /\ redis_client' = TRUE
         /\ connection_pool' = connection_pool + 1
         /\ connection_lock' = t

\* _ensure_connection up to its first await: the liveness probe of a live
\* connection (lines 84-86), or the lock and what follows (92-112)
EnsureStart(t, rec) ==
    IF connected /\ redis_client
    THEN /\ task' = [task EXCEPT ![t] = [rec EXCEPT !.pc = "ping",
                                                     !.probed = connection_pool]]
         /\ UNCHANGED <<redis_client, connection_pool, connection_lock>>
    ELSE Connect(t, rec)

\* publish, lines 167-180: serialize, name the channel, await PUBLISH
PublishBody(t) ==
    /\ task' = [task EXCEPT ![t].pc = "chan",
                            ![t].ser = _serialize_event(task[t].ty, task[t].ev)]
    /\ UNCHANGED <<ev, reg, handlers, subscribed_channels, running, pubsub, server,
                   listener>>

\* subscribe, line 212: the registry's list after the handler is added
Registered(hs, h) == Append(hs, h)

\* subscribe, lines 206-218 up to the await of pubsub.subscribe
SubscribeBody(t) ==
    LET T == task[t].ty
        h == task[t].h
        name == TypeName(T)
    IN  /\ handlers' = DictSet(handlers, name, Registered(DictGet(handlers, name), h))
        /\ ev' = RegistryCall(ev, T, h)
        /\ IF _get_channel_name(T) \in subscribed_channels
           THEN /\ reg' = RegSet(T, h, Again(reg[T]))
                /\ task' = [task EXCEPT ![t] = Returned(t, "ok")]
                /\ UNCHANGED pubsub
           ELSE /\ reg' = RegSet(T, h, "changing")
                /\ pubsub' = TRUE
                /\ task' = [task EXCEPT ![t].pc = "psub"]
        /\ UNCHANGED <<subscribed_channels, running, server, listener>>

\* __aenter__, line 355: return self
EnterBody(t) ==
    /\ task' = [task EXCEPT ![t] = Returned(t, "ok")]
    /\ UNCHANGED <<ev, reg, handlers, subscribed_channels, running, pubsub, server,
                   listener>>

\* the call goes on after _ensure_connection has returned
Body(t) ==
    CASE task[t].op = "publish" -> PublishBody(t)
      [] task[t].op = "subscribe" -> SubscribeBody(t)
      [] OTHER -> EnterBody(t)

\* the call ends with an error raised to the caller
Raise(t, err) ==
    /\ task' = [task EXCEPT ![t] = [Returned(t, err) EXCEPT !.inEnsure = TRUE]]
    /\ ev' = IF task[t].op = "publish" THEN SetResult(ev, task[t].ev, err) ELSE ev
    /\ UNCHANGED <<reg, handlers, subscribed_channels, running, pubsub, server, listener>>

\* _ensure_connection, lines 85-90: the probe of a live connection returns
RedisPingReturn(t, outcome) ==
    /\ impl = "Redis"
    /\ task[t].pc = "ping"
    /\ Outcome(outcome)
    /\ CASE outcome = "ok" ->
              /\ Body(t)
              /\ UNCHANGED <<connected, redis_client, connection_pool, connection_lock>>
         [] outcome = "ConnectionError" ->
              \* caught: reconnect under the lock
              /\ connected' = FALSE
              /\ Connect(t, task[t])
              /\ UNCHANGED <<ev, reg, handlers, subscribed_channels,
                             running, pubsub, server, listener>>
         [] outcome = "RedisError" ->
              \* not caught by `except (ConnectionError, TimeoutError)`
              /\ Raise(t, "RedisError")
              /\ UNCHANGED <<connected, redis_client, connection_pool, connection_lock>>
    /\ UNCHANGED <<scenario, strays, contexts, life, nEvents, made, memVars>>

\* _ensure_connection, lines 112-119: the first ping of a new pool returns
RedisConnectReturn(t, outcome) ==
    /\ impl = "Redis"
    /\ task[t].pc = "connect"
    /\ Outcome(outcome)
    /\ connection_lock' = "free"
    /\ IF outcome = "ok"
       THEN /\ connected' = TRUE
            /\ Body(t)
       ELSE /\ Raise(t, "EventBusError")
            /\ UNCHANGED connected
    /\ UNCHANGED <<scenario, strays, contexts, life, nEvents, made, memVars, redis_client, connection_pool>>

\* _ensure_connection, lines 92-112: a task that waited for the lock gets it;
\* it returns at once if the bus is connected by now (lines 93-94)
RedisLockAcquire(t) ==
    /\ impl = "Redis"
    /\ UNCHANGED budget
    /\ task[t].pc = "lock"
    /\ connection_lock = "free"
    /\ IF connected
       THEN /\ Body(t)
            /\ UNCHANGED <<redis_client, connection_pool, connection_lock>>
       ELSE /\ Connect(t, task[t])
            /\ UNCHANGED <<ev, reg, handlers, subscribed_channels, running, pubsub,
                           server, listener>>
    /\ UNCHANGED <<scenario, strays, contexts, life, nEvents, made, memVars, connected>>

\* __aenter__, lines 352-354: `async with bus` begins
RedisEnterCall(t) ==
    /\ impl = "Redis"
    /\ task[t].pc = "idle"
    /\ CallAllowed
    /\ budget' = CallMade
    /\ ev' = RedisOver(ev)
    /\ EnsureStart(t, [IdleTask EXCEPT !.op = "enter"])
    /\ UNCHANGED <<scenario, strays, contexts, life, nEvents, made, reg, memVars, handlers, subscribed_channels,
                   running, connected, pubsub, server, listener>>

----------------------------------------------------------------------------
(* RedisEventBus: publish *)

\* publish(event) is called: _ensure_connection begins
RedisPublishEvent(t, T, event) ==
    /\ impl = "Redis"
    /\ UNCHANGED budget
    /\ task[t].pc = "idle"
    /\ nEvents < MaxEvents
    /\ nEvents' = nEvents + 1
    /\ made' = Append(made, event)
    /\ ev' = IF nEvents + 1 = watch
             THEN [NewEvent(nEvents + 1, T) EXCEPT !.ambient = get_correlation_id(t)]
             ELSE RedisOver(ev)
    /\ EnsureStart(t, [IdleTask EXCEPT !.op = "publish", !.ty = T, !.ev = nEvents + 1])
    /\ UNCHANGED <<scenario, strays, contexts, life, reg, memVars, handlers, subscribed_channels,
                   running, connected, pubsub, server, listener>>

\* publish(TaskEvent()): the event is constructed in the call
RedisPublishCall(t, T) == RedisPublishEvent(t, T, FreshEvent(t))

\* publish(event) with an object made earlier: a DomainEvent whose metadata
\* has the id c that was ambient then (or was given), or another object
RedisPublishObject(t, T, domain, c) ==
    /\ domain \/ c = get_correlation_id(t)
    /\ RedisPublishEvent(t, T, EventObject(domain, c))

\* history: publish attempted a transport step for event e
Tried(r, e, step) == IF r.id = e THEN [r EXCEPT !.tried = @ \cup {step}] ELSE r

\* history: the server got data for event e on channel
Sent(r, e, channel, data) ==
    IF r.id = e THEN [r EXCEPT !.sent = <<Message(channel, data)>>] ELSE r

\* history: the message of event e arrives on the pub/sub connection
Arrived(r, e, srv, channel) ==
    IF r.id = e /\ channel \in srv.subs THEN [r EXCEPT !.arrived = TRUE] ELSE r

\* history: the transport step of event e ended in an error
Failed(r, e, step) == IF r.id = e THEN [r EXCEPT !.failed = step] ELSE r

\* publish without its except clauses: the Redis exception reaches the caller
PublishFailure_Raw(outcome) == "RedisError"

\* publish, lines 189-192: what the caller gets for an exception of a Redis call
PublishFailure(outcome) == "PublishError"

\* publish, line 180: redis_client.publish returns
RedisChanReturn(t, outcome) ==
    /\ impl = "Redis"
    /\ task[t].pc = "chan"
    /\ Outcome(outcome)
    /\ LET e == task[t].ev
           ch == _get_channel_name(task[t].ty)
       IN  IF outcome = "ok"
           THEN /\ server' = Fanout(server, ch, task[t].ser)
                /\ ev' = Arrived(Sent(Tried(ev, e, "channel"), e, ch, task[t].ser),
                                 e, server, ch)
                /\ task' = [task EXCEPT ![t].pc = "xadd"]
           ELSE /\ ev' = SetResult(Failed(Tried(ev, e, "channel"), e, "channel"), e,
                                    PublishFailure(outcome))
                /\ task' = [task EXCEPT ![t] = Returned(t, PublishFailure(outcome))]
                /\ UNCHANGED server
    /\ UNCHANGED <<scenario, strays, contexts, life, nEvents, made, reg, memVars, handlers, subscribed_channels,
                   running, connected, redis_client, connection_pool, pubsub, connection_lock, listener>>

\* a stream append that raises although the server has added the entry
XaddRaised_Applied(srv, stream, entry) == Xadd(srv, stream, entry)

\* publish, line 183: redis_client.xadd raises: the server has no new entry
XaddRaised(srv, stream, entry) == srv

\* publish, line 183: redis_client.xadd returns
RedisXaddReturn(t, outcome) ==
    /\ impl = "Redis"
    /\ task[t].pc = "xadd"
    /\ Outcome(outcome)
    /\ LET e == task[t].ev
           st == _get_stream_name(task[t].ty)
       IN  IF outcome = "ok"
           THEN /\ server' = Xadd(server, st, XaddFields(task[t].ser))
                /\ ev' = SetResult(Tried(ev, e, "stream"), e, "ok")
                /\ task' = [task EXCEPT ![t] = Returned(t, "ok")]
           ELSE /\ server' = XaddRaised(server, st, XaddFields(task[t].ser))
                /\ ev' = SetResult(Failed(Tried(ev, e, "stream"), e, "stream"), e,
                                    PublishFailure(outcome))
                /\ task' = [task EXCEPT ![t] = Returned(t, PublishFailure(outcome))]
    /\ UNCHANGED <<scenario, strays, contexts, life, nEvents, made, reg, memVars, handlers, subscribed_channels,
                   running, connected, redis_client, connection_pool, pubsub, connection_lock, listener>>

----------------------------------------------------------------------------
(* RedisEventBus: subscribe and unsubscribe *)

RedisSubscribeCall(t, T, h) ==
    /\ impl = "Redis"
    /\ task[t].pc = "idle"
    /\ CallAllowed
    /\ budget' = CallMade
    /\ ev' = RedisOver(ev)
    /\ EnsureStart(t, [IdleTask EXCEPT !.op = "subscribe", !.ty = T, !.h = h])
    /\ life' = Reused(life)
    /\ UNCHANGED <<scenario, strays, contexts, nEvents, made, reg, memVars, handlers, subscribed_channels,
                   running, connected, pubsub, server, listener>>

\* _subscribe_to_channel, lines 267-272, and subscribe, line 218:
\* pubsub.subscribe returns
RedisPsubReturn(t, outcome) ==
    /\ impl = "Redis"
    /\ task[t].pc = "psub"
    /\ Outcome(outcome)
    /\ LET T == task[t].ty
           ch == _get_channel_name(T)
       IN  IF outcome = "ok"
           THEN /\ server' = [server EXCEPT !.subs = @ \cup {ch}]
                /\ running' = TRUE
                /\ listener' = IF ~running THEN Listening ELSE listener
                /\ strays' = IF ~running THEN Stranded(strays, listener) ELSE strays
                /\ correlation_context' =
                       IF ~running THEN ContextFork(correlation_context, t, "listener")
                       ELSE correlation_context
                /\ own' = IF ~running
                          THEN [own EXCEPT !["listener"] = get_correlation_id(t)]
                          ELSE own
                /\ subscribed_channels' = subscribed_channels \cup {ch}
                /\ reg' = RegSet(T, task[t].h, "subscribed")
                /\ task' = [task EXCEPT ![t] = Returned(t, "ok")]
           ELSE /\ task' = [task EXCEPT ![t] = Returned(t, "SubscriptionError")]
                /\ UNCHANGED <<server, running, listener, strays, subscribed_channels, reg,
                               contexts>>
    /\ UNCHANGED <<scenario, life, nEvents, made, ev, memVars, handlers, connected, redis_client, connection_pool,
                   pubsub, connection_lock>>

\* unsubscribe, lines 239-241: list.remove(handler) finds the handler
Removes(hs, h) == InList(hs, h)

\* unsubscribe without the inner except: the ValueError reaches line 256
NotFound_Raises(hs, h) == "SubscriptionError"

\* unsubscribe, lines 250-252: list.remove raised ValueError, which is caught;
\* what the caller gets
NotFound(hs, h) == "ok"

\* an unsubscribe that gives up the channel with every removal
LeavesNone_Always(hs, h) == TRUE

\* unsubscribe, line 244: `if not self._handlers[event_type_name]`, after
\* handlers.remove(handler)
LeavesNone(hs, h) == ListRemove(hs, h) = <<>>

\* unsubscribe, lines 235-252, up to the await of pubsub.unsubscribe
RedisUnsubscribeCall(t, T, h) ==
    /\ impl = "Redis"
    /\ task[t].pc = "idle"
    /\ CallAllowed
    /\ budget' = CallMade
    /\ LET name == TypeName(T)
           hs == DictGet(handlers, name)
           rec == [IdleTask EXCEPT !.op = "unsubscribe", !.ty = T, !.h = h,
                                   !.noop = ~InList(hs, h)]
           done == [IdleTask EXCEPT !.op = "unsubscribe", !.noop = rec.noop, !.res = "ok"]
       IN  IF name \in DOMAIN handlers /\ Removes(hs, h)
           THEN /\ ev' = RegistryCall(RedisOver(ev), T, h)
                /\ IF LeavesNone(hs, h)
                   THEN /\ handlers' = DictDel(handlers, name)
                        /\ listener' =
                             IF listener.pc = "dispatch" /\ listener.name = name
                             THEN [listener EXCEPT !.live = FALSE] ELSE listener
                        /\ IF pubsub
                           THEN /\ task' = [task EXCEPT ![t] = [rec EXCEPT !.pc = "punsub"]]
                                /\ reg' = RegSet(T, h, "changing")
                                /\ UNCHANGED subscribed_channels
                           ELSE /\ task' = [task EXCEPT ![t] = done]
                                /\ reg' = RegSet(T, h, "unsubscribed")
                                /\ subscribed_channels' =
                                       subscribed_channels \ {_get_channel_name(T)}
                   ELSE /\ handlers' = DictSet(handlers, name, ListRemove(hs, h))
                        /\ task' = [task EXCEPT ![t] = done]
                        /\ reg' = RegSet(T, h, "unsubscribed")
                        /\ UNCHANGED <<listener, subscribed_channels>>
           ELSE /\ ev' = RedisOver(ev)
                /\ task' = [task EXCEPT ![t] =
                       [done EXCEPT !.res = IF name \in DOMAIN handlers
                                            THEN NotFound(hs, h) ELSE "ok"]]
                /\ reg' = RegSet(T, h, "unsubscribed")
                /\ UNCHANGED <<handlers, listener, subscribed_channels>>
    /\ UNCHANGED <<scenario, strays, contexts, life, nEvents, made, memVars, running, connected, redis_client, connection_pool, pubsub,
                   connection_lock, server>>

\* _unsubscribe_from_channel, line 277, and unsubscribe, line 248:
\* pubsub.unsubscribe returns
RedisPunsubReturn(t, outcome) ==
    /\ impl = "Redis"
    /\ task[t].pc = "punsub"
    /\ Outcome(outcome)
    /\ LET T == task[t].ty
           ch == _get_channel_name(T)
       IN  IF outcome = "ok"
           THEN /\ server' = [server EXCEPT !.subs = @ \ {ch}]
                /\ subscribed_channels' = subscribed_channels \ {ch}
                /\ reg' = RegSet(T, task[t].h, "unsubscribed")
                /\ task' = [task EXCEPT ![t] = Returned(t, "ok")]
           ELSE /\ task' = [task EXCEPT ![t] = Returned(t, "SubscriptionError")]
                /\ UNCHANGED <<server, subscribed_channels, reg>>
    /\ UNCHANGED <<scenario, strays, contexts, life, nEvents, made, ev, memVars, handlers, running, connected,
                   redis_client, connection_pool, pubsub, connection_lock, listener>>

----------------------------------------------------------------------------
(* RedisEventBus: the listener task *)

\* history: the dispatch of event e is over
Dispatched(r, e) == IF r.id = e THEN [r EXCEPT !.dispatched = TRUE] ELSE r

\* a listener that hands each message to a task of its own and reads on
ListenerReady_Detached(l) == l.pc \in {"listen", "dispatch"}

\* _message_listener, lines 285-287: `await self._handle_message(message)` in
\* the body of the `async for`: the next message is read once the call is over
ListenerReady(l) == l.pc = "listen"

\* _message_listener, lines 285-287, and _handle_message, lines 297-311:
\* a message arrives and its handlers are looked up
ListenerReceive ==
    /\ impl = "Redis"
    /\ UNCHANGED budget
    /\ ListenerReady(listener)
    /\ server.inbox # <<>>
    /\ LET message == Head(server.inbox)
           event_type_name == StripChannelPrefix(message.channel)
           event_data == _deserialize_event(message.data)
       IN  /\ server' = [server EXCEPT !.inbox = Tail(@)]
           /\ correlation_context' = Adopt(correlation_context, event_data)
           /\ own' = [own EXCEPT !["listener"] = Adopt(correlation_context, event_data)["listener"]]
           /\ IF event_type_name \in DOMAIN handlers
              THEN /\ listener' = [pc |-> "dispatch", ev |-> EventOf(event_data),
                                   name |-> event_type_name, idx |-> 1, live |-> TRUE,
                                   hurt |-> listener.hurt]
                   /\ UNCHANGED ev
              ELSE /\ ev' = Dispatched(ev, EventOf(event_data))
                   /\ UNCHANGED listener
    /\ UNCHANGED <<scenario, strays, life, task, nEvents, made, reg, memVars, handlers,
                   subscribed_channels, running, connected, redis_client, connection_pool, pubsub,
                   connection_lock>>

\* _handle_message with the try around the loop instead of inside it: an
\* exception of a handler ends the iteration
AfterHandler_Abort(l, outcome) ==
    IF outcome = "raise" THEN [l EXCEPT !.idx = @ + 1, !.live = FALSE]
    ELSE [l EXCEPT !.idx = @ + 1]

\* _handle_message, lines 312-320: where the loop stands after a handler
\* returned or raised (the exception is caught and logged)
AfterHandler(l, outcome) == [l EXCEPT !.idx = @ + 1]

\* history: a handler raised on a message earlier than the observed event
Hurt(l, outcome) ==
    [l EXCEPT !.hurt = @ \/ (outcome = "raise" /\ listener.ev < watch)]

\* history: probe, called by the listener with event e, reads the ambient id
Observes(r, e, h) ==
    IF r.id = e /\ h = probe THEN [r EXCEPT !.observed = <<get_correlation_id("listener")>>]
    ELSE r

\* history: probe is called by the listener with event e.  The observed event
\* is overtaken if it arrived before e (one publisher: it has the smaller id)
\* and neither has probe got it nor has its dispatch ended; it is late if e
\* arrived before it and it has been dispatched already.
Overtaken(r, e, h) ==
    IF /\ h = probe
       /\ r.id # 0
       /\ \/ e > r.id /\ r.arrived /\ r.calls = 0 /\ ~r.dispatched
          \/ e < r.id /\ (r.calls > 0 \/ r.dispatched)
    THEN [r EXCEPT !.disorder = TRUE]
    ELSE r

\* _handle_message, lines 312-320: the next handler of the list is called
ListenerInvoke(outcome) ==
    /\ impl = "Redis"
    /\ UNCHANGED budget
    /\ listener.pc = "dispatch"
    /\ listener.idx <= Len(DispatchList)
    /\ ev' = Overtaken(Observes(Invoked(ev, listener.ev, DispatchList[listener.idx],
                                        outcome),
                                listener.ev, DispatchList[listener.idx]),
                       listener.ev, DispatchList[listener.idx])
    /\ listener' = Hurt(AfterHandler(listener, outcome), outcome)
    /\ UNCHANGED <<scenario, strays, contexts, life, task, nEvents, made, reg, memVars, handlers, subscribed_channels,
                   running, connected, redis_client, connection_pool, pubsub, connection_lock, server>>

\* _handle_message returns: the list is exhausted
ListenerDispatchEnd ==
    /\ impl = "Redis"
    /\ UNCHANGED budget
    /\ listener.pc = "dispatch"
    /\ listener.idx > Len(DispatchList)
    /\ listener' = [Listening EXCEPT !.hurt = listener.hurt]
    /\ ev' = Dispatched(ev, listener.ev)
    /\ UNCHANGED <<scenario, strays, contexts, life, task, nEvents, made, reg, memVars, handlers, subscribed_channels,
                   running, connected, redis_client, connection_pool, pubsub, connection_lock, server>>

\* _message_listener, lines 289-292: pubsub.listen() raises or ends
ListenerExit ==
    /\ impl = "Redis"
    /\ Outcome("exit")
    /\ listener.pc = "listen"
    /\ listener' = [NoListener EXCEPT !.pc = "done"]
    /\ running' = FALSE
    /\ UNCHANGED <<scenario, strays, contexts, life, task, nEvents, made, ev, reg, memVars, handlers,
                   subscribed_channels, connected, redis_client, connection_pool, pubsub, connection_lock,
                   server>>

----------------------------------------------------------------------------
(* RedisEventBus: close *)

\* close without cancelling the listener task
CancelListener_Skip(l) == l

\* close, lines 331-333: the listener task, if it is not done, is cancelled:
\* CancelledError is thrown into it when it next runs
CancelListener(l) ==
    IF l.pc \in {"listen", "dispatch"} THEN [NoListener EXCEPT !.pc = "cancelling"] ELSE l

\* close, lines 349-350: an exception of pubsub.close() or of
\* connection_pool.disconnect() is logged; _connected stays as it is
CloseFailed(c) == c

\* close returns (it never raises: lines 327, 349-350)
CloseReturn(t) ==
    /\ task' = [task EXCEPT ![t] = Returned(t, "ok")]
    /\ life' = Closed(life)

\* close, lines 338-347, up to the await of pubsub.close() (or, with no
\* pub/sub handle, of connection_pool.disconnect(); or, with neither, to its end)
ClosePubsub(t, rec, l) ==
    IF pubsub
    THEN /\ task' = [task EXCEPT ![t] = [rec EXCEPT !.pc = "pclose"]]
         /\ life' = l
         /\ UNCHANGED connected
    ELSE IF redis_client
    THEN /\ task' = [task EXCEPT ![t] = [rec EXCEPT !.pc = "pdisc"]]
         /\ life' = l
         /\ UNCHANGED connected
    ELSE /\ task' = [task EXCEPT ![t] = [rec EXCEPT !.pc = "idle", !.res = "ok"]]
         /\ life' = Closed(l)
         /\ connected' = FALSE

\* close, lines 327-334, up to `await self._subscriber_task`; with no
\* listener task to cancel it goes on at once
RedisCloseCall(t) ==
    /\ impl = "Redis"
    /\ task[t].pc = "idle"
    /\ life.closes < MaxCloses
    /\ running' = FALSE
    /\ listener' = CancelListener(listener)
    /\ LET rec == [IdleTask EXCEPT !.op = "close"]
           counted == [life EXCEPT !.closes = @ + 1]
       IN  IF CancelListener(listener).pc = "cancelling"
           THEN /\ task' = [task EXCEPT ![t] = [rec EXCEPT !.pc = "cancel"]]
                /\ life' = counted
                /\ UNCHANGED connected
           ELSE ClosePubsub(t, rec, counted)
    /\ UNCHANGED <<scenario, strays, contexts, budget, nEvents, made, ev, reg, memVars, handlers,
                   subscribed_channels, redis_client, connection_pool, pubsub, connection_lock, server>>

\* _message_listener, lines 291-292: the cancelled listener task runs:
\* CancelledError passes the `except Exception`, the finally clause clears
\* _running, and the task has ended
ListenerCancelled ==
    /\ impl = "Redis"
    /\ UNCHANGED budget
    /\ listener.pc = "cancelling"
    /\ listener' = [NoListener EXCEPT !.pc = "done"]
    /\ running' = FALSE
    /\ UNCHANGED <<scenario, strays, contexts, life, task, nEvents, made, ev, reg, memVars, handlers,
                   subscribed_channels, connected, redis_client, connection_pool, pubsub,
                   connection_lock, server>>

\* the same for a cancelled listener task that _subscriber_task no longer names
StrayCancelled ==
    /\ impl = "Redis"
    /\ UNCHANGED budget
    /\ strays.ending > 0
    /\ strays' = [strays EXCEPT !.ending = @ - 1]
    /\ running' = FALSE
    /\ UNCHANGED <<scenario, contexts, life, task, nEvents, made, ev, reg, memVars, handlers,
                   subscribed_channels, connected, redis_client, connection_pool, pubsub,
                   connection_lock, server, listener>>

\* close, lines 334-340: the cancelled task has ended and the await at line
\* 334 returns (with several cancelled listener tasks: once all have ended)
RedisCancelReturn(t) ==
    /\ impl = "Redis"
    /\ UNCHANGED budget
    /\ task[t].pc = "cancel"
    /\ listener.pc # "cancelling"
    /\ strays.ending = 0
    /\ ClosePubsub(t, task[t], life)
    /\ UNCHANGED <<scenario, strays, contexts, nEvents, made, ev, reg, memVars, handlers,
                   subscribed_channels, running, redis_client, connection_pool, pubsub,
                   connection_lock, server, listener>>

\* close, lines 339-344: pubsub.close() returns; a closed handle is
\* subscribed to nothing and what it had not read is gone
RedisPcloseReturn(t, outcome) ==
    /\ impl = "Redis"
    /\ task[t].pc = "pclose"
    /\ Outcome(outcome)
    /\ IF outcome = "ok"
       THEN /\ server' = [server EXCEPT !.subs = {}, !.inbox = <<>>]
            /\ task' = [task EXCEPT ![t].pc = "pdisc"]
            /\ UNCHANGED <<connected, life>>
       ELSE /\ connected' = CloseFailed(connected)
            /\ CloseReturn(t)
            /\ UNCHANGED server
    /\ UNCHANGED <<scenario, strays, contexts, nEvents, made, ev, reg, memVars, handlers, subscribed_channels,
                   running, redis_client, connection_pool, pubsub, connection_lock, listener>>

\* close, lines 343-347: connection_pool.disconnect() returns
RedisPdiscReturn(t, outcome) ==
    /\ impl = "Redis"
    /\ task[t].pc = "pdisc"
    /\ Outcome(outcome)
    /\ connected' = IF outcome = "ok" THEN FALSE ELSE CloseFailed(connected)
    /\ CloseReturn(t)
    /\ UNCHANGED <<scenario, strays, contexts, nEvents, made, ev, reg, memVars, handlers, subscribed_channels,
                   running, redis_client, connection_pool, pubsub, connection_lock, server, listener>>

----------------------------------------------------------------------------
(* LoggingEventBus *)

\* a LoggingEventBus that never forwards
Forwards_Never(inner) == FALSE

\* publish, subscribe, unsubscribe: `if self._inner_bus:`
Forwards(inner) == inner

\* publish, lines 24-34: the log entry reads event_type, event_id,
\* correlation_id and timestamp of the event; an object that is no
\* DomainEvent has none of them
LogEntry(event) == IF event.domain THEN "ok" ELSE "AttributeError"

\* the call on the logging bus ends at once with result r, the wrapped bus
\* untouched
LogReturn(t, op, r) ==
    /\ task' = [task EXCEPT ![t] = [IdleTask EXCEPT !.op = op, !.res = r]]
    /\ UNCHANGED <<scenario, strays, contexts, life, reg, memVars, redisVars>>

\* LoggingEventBus.publish(event); the awaited inner publish runs on in the
\* same step up to its first suspension
LogPublish(t, T, domain) ==
    LET event == EventObject(domain, get_correlation_id(t))
    IN  IF LogEntry(event) = "ok" /\ Forwards(inner_bus)
        THEN MemPublishEvent(t, T, event) \/ RedisPublishEvent(t, T, event)
        ELSE /\ task[t].pc = "idle"
             /\ nEvents < MaxEvents
             /\ nEvents' = nEvents + 1
             /\ made' = Append(made, event)
             /\ ev' = IF nEvents + 1 = watch
                      THEN SetResult(NewEvent(nEvents + 1, T), nEvents + 1, LogEntry(event))
                      ELSE ev
             /\ UNCHANGED budget
             /\ LogReturn(t, "publish", LogEntry(event))

\* LoggingEventBus.subscribe(event_type, handler)
LogSubscribe(t, T, h) ==
    IF Forwards(inner_bus)
    THEN MemSubscribe(t, T, h) \/ RedisSubscribeCall(t, T, h)
    ELSE /\ task[t].pc = "idle"
         /\ CallAllowed
         /\ budget' = CallMade
         /\ UNCHANGED <<nEvents, made, ev>>
         /\ LogReturn(t, "subscribe", "ok")

\* LoggingEventBus.unsubscribe(event_type, handler)
LogUnsubscribe(t, T, h) ==
    IF Forwards(inner_bus)
    THEN MemUnsubscribe(t, T, h) \/ RedisUnsubscribeCall(t, T, h)
    ELSE /\ task[t].pc = "idle"
         /\ CallAllowed
         /\ budget' = CallMade
         /\ UNCHANGED <<nEvents, made, ev>>
         /\ LogReturn(t, "unsubscribe", "ok")

----------------------------------------------------------------------------
(* Specification *)

\* every object as its constructor leaves it; nothing called yet
InitBus ==
    /\ task = [t \in Tasks |-> IdleTask]
    /\ life = [state |-> "open", closes |-> 0]
    /\ nEvents = 0
    /\ made = <<>>
    /\ correlation_context = [u \in Contexts |-> DefaultId]
    /\ own = [u \in Contexts |-> DefaultId]
    /\ ev = NoEvent
    /\ reg = [T \in Types |-> "never"]
    /\ subscribers = EmptyDict
    /\ published_events = <<>>
    /\ handlers = EmptyDict
    /\ subscribed_channels = {}
    /\ running = FALSE
    /\ connected = FALSE
    /\ redis_client = FALSE
    /\ connection_pool = 0
    /\ pubsub = FALSE
    /\ connection_lock = "free"
    /\ server = [subs |-> {}, inbox |-> <<>>, stream |-> EmptyDict]
    /\ listener = NoListener
    /\ strays = NoStrays

\* a run with at most MaxFaults injected faults
InitState ==
    /\ budget = [calls |-> 0, faults |-> 0, limit |-> MaxFaults]
    /\ InitBus

\* The application uses two event classes: a class and its subclass, whose
\* names differ, or two unrelated classes of the same name.
ClassPairs == {{"app.TaskEvent", "app.SubTaskEvent"}, {"app.TaskEvent", "other.TaskEvent"}}

\* one caller task, two event classes, one observed event
Scenario ==
    /\ inner_bus = TRUE
    /\ active = {"t1"}
    /\ classes \in ClassPairs
    /\ watch \in 1..MaxEvents

\* either bus
Init ==
    /\ impl \in {"InMemory", "Redis"}
    /\ Scenario
    /\ InitState

\* the in-memory bus
InitMem ==
    /\ impl = "InMemory"
    /\ Scenario
    /\ InitState

NextMem ==
    \/ \E t \in active, T \in classes : MemPublishCall(t, T)
    \/ \E t \in active, i \in 1..Cardinality(Handlers), o \in {"ok", "raise"} :
           MemRunHandler(t, i, o)
    \/ \E t \in active : MemPublishReturn(t)
    \/ \E t \in active, T \in classes, h \in Handlers : MemSubscribe(t, T, h)
    \/ \E t \in active, T \in classes, h \in Handlers : MemUnsubscribe(t, T, h)

NextRedis ==
    \/ \E t \in active, T \in classes : RedisPublishCall(t, T)
    \/ \E t \in active, o \in {"ok", "ConnectionError", "RedisError"} : RedisPingReturn(t, o)
    \/ \E t \in active, o \in {"ok", "error"} : RedisConnectReturn(t, o)
    \/ \E t \in active, o \in {"ok", "error"} : RedisChanReturn(t, o)
    \/ \E t \in active, o \in {"ok", "error"} : RedisXaddReturn(t, o)
    \/ \E t \in active, T \in classes, h \in Handlers : RedisSubscribeCall(t, T, h)
    \/ \E t \in active, o \in {"ok", "error"} : RedisPsubReturn(t, o)
    \/ \E t \in active, T \in classes, h \in Handlers : RedisUnsubscribeCall(t, T, h)
    \/ \E t \in active, o \in {"ok", "error"} : RedisPunsubReturn(t, o)
    \/ ListenerReceive
    \/ \E o \in {"ok", "raise"} : ListenerInvoke(o)
    \/ ListenerDispatchEnd
    \/ ListenerExit

Next == NextMem \/ NextRedis

NextClose ==
    \/ \E t \in active : RedisCloseCall(t)
    \/ ListenerCancelled
    \/ \E t \in active : RedisCancelReturn(t)
    \/ \E t \in active, o \in {"ok", "error"} : RedisPcloseReturn(t, o)
    \/ \E t \in active, o \in {"ok", "error"} : RedisPdiscReturn(t, o)

\* the Redis bus, with close: one caller task, one event class
InitClose ==
    /\ impl = "Redis"
    /\ inner_bus = TRUE
    /\ active = {"t1"}
    /\ classes = {"app.TaskEvent"}
    /\ watch \in 1..MaxEvents
    /\ InitState

\* what two caller tasks add to the Redis bus
NextShared ==
    \/ \E t \in active : RedisLockAcquire(t)
    \/ \E t \in active : RedisEnterCall(t)

\* the calls that connect: publish, subscribe(T, probe), __aenter__
NextConnect ==
    \/ \E t \in active, T \in classes : RedisPublishCall(t, T)
    \/ \E t \in active, T \in classes : RedisSubscribeCall(t, T, probe)
    \/ \E t \in active, o \in {"ok", "ConnectionError", "RedisError"} : RedisPingReturn(t, o)
    \/ \E t \in active, o \in {"ok", "error"} : RedisConnectReturn(t, o)
    \/ \E t \in active, o \in {"ok", "error"} : RedisChanReturn(t, o)
    \/ \E t \in active, o \in {"ok", "error"} : RedisXaddReturn(t, o)
    \/ \E t \in active, o \in {"ok", "error"} : RedisPsubReturn(t, o)
    \/ ListenerReceive
    \/ \E o \in {"ok", "raise"} : ListenerInvoke(o)
    \/ ListenerDispatchEnd
    \/ ListenerExit

\* the Redis bus shared by two caller tasks: one event class
InitShared ==
    /\ impl = "Redis"
    /\ inner_bus = TRUE
    /\ active = Tasks
    /\ classes = {"app.TaskEvent"}
    /\ watch \in 1..MaxEvents
    /\ InitState

\* a run of the in-memory bus
SpecMem == InitMem /\ [][NextMem]_vars

\* a run of the Redis bus in which it is also closed
SpecClose == InitClose /\ [][NextRedis \/ NextClose]_vars

\* The steps of a run on a live connection: every Redis call succeeds and
\* the listener's read never fails; subscribe(T, probe) is called once.
TaskStep(t) ==
    \/ RedisPingReturn(t, "ok")
    \/ RedisConnectReturn(t, "ok")
    \/ RedisChanReturn(t, "ok")
    \/ RedisXaddReturn(t, "ok")
    \/ RedisPsubReturn(t, "ok")
    \/ RedisLockAcquire(t)

ListenerStep ==
    \/ ListenerReceive
    \/ \E o \in {"ok", "raise"} : ListenerInvoke(o)
    \/ ListenerDispatchEnd

NextLive ==
    \/ \E t \in active, T \in classes : RedisPublishCall(t, T)
    \/ \E t \in active, T \in classes : budget.calls = 0 /\ RedisSubscribeCall(t, T, probe)
    \/ \E t \in active : TaskStep(t)
    \/ ListenerStep

\* The event loop runs every task that is ready (asyncio keeps the ready
\* callbacks in a FIFO queue and runs them all on each iteration), and a live
\* server answers every command: a caller task whose awaited call can return
\* does continue, and so does the listener task when a message is there.
Fairness ==
    /\ \A t \in Tasks : WF_vars(TaskStep(t))
    /\ WF_vars(ListenerStep)

\* a run of the Redis bus with two caller tasks on a live connection, fairly
\* scheduled
SpecLive == InitShared /\ [][NextLive]_vars /\ Fairness

\* two caller tasks that set correlation ids and publish events of either
\* kind on a live connection; subscribe(T, probe) is called once
NextCorrelation ==
    \/ \E t \in active, c \in Ids : SetCorrelationId(t, c)
    \/ \E t \in active, T \in classes, domain \in BOOLEAN, c \in Ids :
           RedisPublishObject(t, T, domain, c)
    \/ \E t \in active, T \in classes : budget.calls = 0 /\ RedisSubscribeCall(t, T, probe)
    \/ \E t \in active : TaskStep(t)
    \/ ListenerStep

\* a run of the Redis bus in which correlation ids are set
SpecCorrelation == InitShared /\ [][NextCorrelation]_vars

\* what goes on inside the wrapped bus once a call has reached it
NextInside ==
    \/ \E t \in active, i \in 1..Cardinality(Handlers), o \in {"ok", "raise"} :
           MemRunHandler(t, i, o)
    \/ \E t \in active : MemPublishReturn(t)
    \/ \E t \in active, o \in {"ok", "ConnectionError", "RedisError"} : RedisPingReturn(t, o)
    \/ \E t \in active, o \in {"ok", "error"} : RedisConnectReturn(t, o)
    \/ \E t \in active, o \in {"ok", "error"} : RedisChanReturn(t, o)
    \/ \E t \in active, o \in {"ok", "error"} : RedisXaddReturn(t, o)
    \/ \E t \in active, o \in {"ok", "error"} : RedisPsubReturn(t, o)
    \/ \E t \in active, o \in {"ok", "error"} : RedisPunsubReturn(t, o)
    \/ ListenerReceive
    \/ \E o \in {"ok", "raise"} : ListenerInvoke(o)
    \/ ListenerDispatchEnd
    \/ ListenerExit

\* the calls made on the wrapped bus itself, with any object as the event
NextInner ==
    \/ \E t \in active, T \in classes, domain \in BOOLEAN :
           \/ MemPublishEvent(t, T, EventObject(domain, get_correlation_id(t)))
           \/ RedisPublishEvent(t, T, EventObject(domain, get_correlation_id(t)))
    \/ \E t \in active, T \in classes, h \in Handlers :
           \/ MemSubscribe(t, T, h)
           \/ RedisSubscribeCall(t, T, h)
           \/ MemUnsubscribe(t, T, h)
           \/ RedisUnsubscribeCall(t, T, h)
    \/ NextInside

\* the calls made on the logging bus
NextLogging ==
    \/ \E t \in active, T \in classes, domain \in BOOLEAN : LogPublish(t, T, domain)
    \/ \E t \in active, T \in classes, h \in Handlers : LogSubscribe(t, T, h)
    \/ \E t \in active, T \in classes, h \in Handlers : LogUnsubscribe(t, T, h)
    \/ NextInside

\* LoggingEventBus(inner) or LoggingEventBus(None), inner being either bus:
\* one caller task, one event class
InitLogging ==
    /\ impl \in {"InMemory", "Redis"}
    /\ inner_bus \in BOOLEAN
    /\ active = {"t1"}
    /\ classes = {"app.TaskEvent"}
    /\ watch \in 1..MaxEvents
    /\ InitState

\* a run in which every call is made on the logging bus
SpecLogging == InitLogging /\ [][NextLogging]_vars

\* A connection loss shows as a failed probe (ConnectionError of ping) and,
\* when it hits the pub/sub connection, as the end of the listener's read;
\* every other Redis call succeeds.  subscribe(T, probe) is called once.
NextReconnect ==
    \/ \E t \in active, T \in classes : RedisPublishCall(t, T)
    \/ \E t \in active, T \in classes : budget.calls = 0 /\ RedisSubscribeCall(t, T, probe)
    \/ \E t \in active, o \in {"ok", "ConnectionError"} : RedisPingReturn(t, o)
    \/ \E t \in active : RedisConnectReturn(t, "ok")
    \/ \E t \in active : RedisChanReturn(t, "ok")
    \/ \E t \in active : RedisXaddReturn(t, "ok")
    \/ \E t \in active : RedisPsubReturn(t, "ok")
    \/ ListenerStep
    \/ ListenerExit

\* the Redis bus with one caller task and one event class, in a run in which
\* the probe and the listener's read may each fail
InitReconnect ==
    /\ impl = "Redis"
    /\ inner_bus = TRUE
    /\ active = {"t1"}
    /\ classes = {"app.TaskEvent"}
    /\ watch \in 1..MaxEvents
    /\ budget = [calls |-> 0, faults |-> 0, limit |-> MaxFaults + 1]
    /\ InitBus

\* a run of the Redis bus in which the connection is lost
SpecReconnect == InitReconnect /\ [][NextReconnect]_vars

\* two caller tasks that subscribe and unsubscribe handlers of one class on
\* a server that answers every command
NextRegistry ==
    \/ \E t \in active, T \in classes, h \in Handlers : RedisSubscribeCall(t, T, h)
    \/ \E t \in active, T \in classes, h \in Handlers : RedisUnsubscribeCall(t, T, h)
    \/ \E t \in active : RedisPingReturn(t, "ok")
    \/ \E t \in active : RedisConnectReturn(t, "ok")
    \/ \E t \in active : RedisLockAcquire(t)
    \/ \E t \in active : RedisPsubReturn(t, "ok")
    \/ \E t \in active : RedisPunsubReturn(t, "ok")

\* a run of the Redis bus in which two tasks change the registry
SpecRegistry == InitShared /\ [][NextRegistry]_vars

\* two caller tasks that enter and publish on a bus whose connection may be lost:
\* probes may fail, every other Redis call succeeds
NextProbe ==
    \/ \E t \in active : RedisEnterCall(t)
    \/ \E t \in active, T \in classes : RedisPublishCall(t, T)
    \/ \E t \in active, o \in {"ok", "ConnectionError"} : RedisPingReturn(t, o)
    \/ \E t \in active : RedisConnectReturn(t, "ok")
    \/ \E t \in active : RedisLockAcquire(t)
    \/ \E t \in active : RedisChanReturn(t, "ok")
    \/ \E t \in active : RedisXaddReturn(t, "ok")

\* the Redis bus shared by two caller tasks, each of whose probes may fail
InitProbe ==
    /\ impl = "Redis"
    /\ inner_bus = TRUE
    /\ active = Tasks
    /\ classes = {"app.TaskEvent"}
    /\ watch \in 1..MaxEvents
    /\ budget = [calls |-> 0, faults |-> 0, limit |-> MaxFaults + 1]
    /\ InitBus

\* a run of the Redis bus in which two tasks probe a lost connection
SpecProbe == InitProbe /\ [][NextProbe]_vars

\* two caller tasks that subscribe, unsubscribe and close on a server that
\* answers every command
NextListeners ==
    \/ NextRegistry
    \/ \E t \in active : RedisCloseCall(t)
    \/ ListenerCancelled
    \/ StrayCancelled
    \/ \E t \in active : RedisCancelReturn(t)
    \/ \E t \in active : RedisPcloseReturn(t, "ok")
    \/ \E t \in active : RedisPdiscReturn(t, "ok")

\* a run of the Redis bus in which two tasks start and stop the listener
SpecListeners == InitShared /\ [][NextListeners]_vars

\* a run of the Redis bus with two caller tasks
SpecShared == InitShared /\ [][NextConnect \/ NextShared]_vars

\* a run of either bus
Spec == Init /\ [][Next]_vars

----------------------------------------------------------------------------
(* Properties *)

MemBus == impl = "InMemory"
RedisBus == impl = "Redis"

\* an event is observed; publish has ended for it
Observed == ev.id # 0
PublishEnded == Observed /\ ev.res # "pending"

\* when publish was called, probe was subscribed for the event's class
Expected == ev.regAt \in {"subscribed", "twice"}

\* the classes of this run have different simple names
DistinctNames == \A T, U \in classes : T # U => TypeName(T) # TypeName(U)

\* C1: in-memory bus: once subscribe(T, h) has completed and h has not been
\* unsubscribed, every publish of an event of class exactly T invokes h
\* exactly once with it, whichever publish of the run it is.
PublishInvokesOnce ==
    (MemBus /\ Observed /\ Expected) =>
        /\ ev.calls <= 1
        /\ PublishEnded => ev.calls = 1

\* C1: the second publish of a run has invoked the subscribed handler once
PublishInvokesOnceSeen ==
    /\ MemBus
    /\ ev.id > 1
    /\ Expected
    /\ ev.res = "ok"
    /\ ev.calls = 1
    /\ Len(published_events) > 1

\* C2: on either bus, with classes of different names: after unsubscribe(T, h)
\* has completed, no event of class T published afterwards invokes h.
UnsubscribedNeverInvoked ==
    (DistinctNames /\ Observed /\ ev.regAt = "unsubscribed") => ev.calls = 0

\* C3: on either bus: publishing an event of class U never invokes a handler
\* that was never subscribed for U (it is registered, if at all, for other
\* classes only).
OtherTypeNeverInvoked ==
    (Observed /\ reg[ev.ty] = "never") => ev.calls = 0

\* C4: in-memory bus: publish never raises, and when another handler of the
\* event's class raised, the subscribed handler has still been invoked
\* exactly once when publish returns.
HandlerErrorsSwallowed ==
    (MemBus /\ Observed) =>
        /\ ev.res \in {"pending", "ok"}
        /\ (ev.res = "ok" /\ ev.raised /\ Expected) => ev.calls = 1

\* C4: a handler raised, publish returned, the other handler was invoked once
HandlerErrorsSwallowedSeen ==
    /\ MemBus
    /\ ev.raised
    /\ Expected
    /\ ev.res = "ok"
    /\ ev.calls = 1
    /\ task["t1"].pc = "idle"

\* C5: Redis bus: when the dispatch of a message is over and no call changed
\* the registry meanwhile, each handler has been invoked as often as it is
\* registered for the message's type name, even if another handler raised;
\* and unless its read fails, the listener is still running after a dispatch,
\* so that later messages go through the same dispatch.
DispatchIsolatesFailures ==
    (RedisBus /\ Observed /\ ev.dispatched) =>
        /\ ev.stable => ev.calls = Count(DictGet(handlers, TypeName(ev.ty)), probe)
        /\ budget.faults = 0 => (running /\ listener.pc \in {"listen", "dispatch"})

\* C5: a handler had raised on an earlier message; on this one the handler
\* registered first raised, the one registered after it was invoked, and the
\* listener waits for the next
DispatchIsolatesFailuresSeen ==
    /\ RedisBus
    /\ listener.hurt
    /\ ev.dispatched
    /\ ev.stable
    /\ ev.raised
    /\ ev.calls = 1
    /\ DictGet(handlers, TypeName(ev.ty)) = <<"h2", probe>>
    /\ running
    /\ listener.pc = "listen"

\* C6: in-memory bus: no list of the registry holds a handler twice; after
\* subscribe(T, h) completed twice h is registered once for T, and a publish
\* of T invokes it exactly once.
SubscribeIdempotent ==
    MemBus =>
        /\ \A T \in DOMAIN subscribers, h \in Handlers : Count(subscribers[T], h) <= 1
        /\ \A T \in classes :
               reg[T] = "twice" => Count(DictGet(subscribers, T), probe) = 1
        /\ (PublishEnded /\ ev.regAt = "twice") => ev.calls = 1

\* C6: the handler was subscribed twice and a publish invoked it once
SubscribeIdempotentSeen ==
    /\ MemBus
    /\ PublishEnded
    /\ ev.regAt = "twice"
    /\ ev.calls = 1
    /\ get_handler_count(ev.ty) = 1

\* C7: Redis bus: after subscribe(T, h) completed twice, a message of type T
\* invokes h at most once.
RedisSubscribeIdempotent ==
    (RedisBus /\ Observed /\ ev.regAt = "twice") => ev.calls <= 1

\* an unsubscribe call whose handler is not in the list of its type starts
\* (and, having nothing to await, ends) in this step
NoOpUnsubscribeStep(t) ==
    /\ budget'.calls = budget.calls + 1
    /\ task'[t].op = "unsubscribe"
    /\ task'[t].noop

PublishDurable ==
    (RedisBus /\ Observed /\ ev.res = "ok") =>
        LET json == _serialize_event(ev.ty, ev.id)
        IN  /\ ev.sent = <<Message(<<"events:", "channel:", TypeName(ev.ty)>>, json)>>
            /\ InList(DictGet(server.stream, <<"events:", "stream:", TypeName(ev.ty)>>),
                      [event |-> json])

\* C9: publish returned while nobody was subscribed, and the entry is there
PublishDurableSeen ==
    /\ RedisBus
    /\ ev.res = "ok"
    /\ server.subs = {}
    /\ handlers = EmptyDict
    /\ Len(DictGet(server.stream, _get_stream_name(ev.ty))) > 0

SubscribeConnectFailure ==
    RedisBus =>
        \A t \in Tasks :
            (task[t].op = "subscribe" /\ task[t].inEnsure) =>
                task[t].res = "SubscriptionError"

\* the kinds of error of the EventBus port (ports.py)
BusErrors == {"EventBusError", "PublishError", "SubscriptionError"}

\* C12: Redis bus: whatever a publish, subscribe or unsubscribe call gives its
\* caller is a normal return or one of the port's errors, never the
\* exception of the transport itself.
NoRawTransportError ==
    RedisBus =>
        \A t \in Tasks : task[t].res \in {"none", "ok"} \cup BusErrors

\* C13: Redis bus: whenever a close call has returned, it returned normally,
\* the listener is not running (_running is false) and the bus is
\* Disconnected (_connected is false), also when pubsub.close() or
\* connection_pool.disconnect() failed.
CloseDisconnects ==
    RedisBus =>
        \A t \in Tasks :
            (task[t].op = "close" /\ task[t].pc = "idle") =>
                (task[t].res = "ok" /\ ~running /\ ~connected)

\* a step in which probe is invoked with the observed event
ProbeInvoked == ev'.id = ev.id /\ ev'.calls > ev.calls

\* C14 (as stated): Redis bus: an event published after a close call has
\* returned never invokes a handler.
ClosedNeverDelivers ==
    (RedisBus /\ Observed /\ ev.afterClose) => ev.calls = 0

\* C14: Redis bus: from the return of a close call until the next subscribe
\* call on the bus, no listener task is alive and no handler is invoked.
CloseStopsDelivery ==
    [][life'.state = "closed" =>
          (listener'.pc \in {"none", "done"} /\ ~ProbeInvoked)]_vars

\* C14: the handler is registered, the bus was closed, and an event published
\* after that reached the server without being delivered
CloseStopsDeliverySeen ==
    /\ RedisBus
    /\ life.state = "closed"
    /\ InList(DictGet(handlers, "TaskEvent"), probe)
    /\ ev.afterClose
    /\ ev.res = "ok"
    /\ ev.calls = 0
    /\ listener.pc = "done"

\* C19: at most one task is inside the connect section of
\* _ensure_connection at any time, and a connection pool is created only by
\* the first attempt or after a failure: with no failed attempt or probe
\* exactly one pool exists, however many tasks called on the disconnected
\* bus (those that waited for the lock find it connected and create nothing).
ConnectExclusive ==
    /\ Cardinality({t \in Tasks : task[t].pc = "connect"}) <= 1
    /\ connection_pool <= 1 + budget.faults
    /\ connected => connection_pool >= 1

\* two tasks called on the disconnected bus, one of them waited for the lock
\* while the other connected, and both are past _ensure_connection
ConnectExclusiveSeen ==
    /\ budget.faults = 0
    /\ connection_pool = 1
    /\ connected
    /\ \A t \in Tasks : task[t].op # "none" /\ task[t].pc \notin {"lock", "connect", "ping"}
    /\ \E t \in Tasks : task[t].waited /\ task[t].pc \in {"chan", "xadd", "psub"}

\* C15: on a live connection and under a fair scheduler, every event that is
\* published once subscribe(T, probe) has completed (the publish calls of the
\* two tasks overlapping or not) is eventually handed to probe and its
\* dispatch ends, and probe is never invoked twice with it; what probe gets is
\* the payload of that event.
ConcurrentDelivery ==
    /\ (ev.id # 0 /\ ev.regAt = "subscribed") ~> (ev.calls = 1 /\ ev.dispatched)
    /\ [](ev.regAt = "subscribed" => ev.calls <= 1)
    /\ [](ev.calls > 0 =>
            ev.sent = <<Message(_get_channel_name(ev.ty), _serialize_event(ev.ty, ev.id))>>)

\* the second of two overlapping publishes is under way when probe has got
\* the observed event
ConcurrentDeliverySeen ==
    /\ ev.regAt = "subscribed"
    /\ ev.calls = 1
    /\ ev.dispatched
    /\ nEvents = MaxEvents
    /\ \E t \in Tasks : task[t].pc \in {"ping", "chan", "xadd"} /\ task[t].ev # ev.id

\* C16: whenever the listener invokes probe with an event, get_correlation_id()
\* in probe gives the id that was ambient in the publisher as it called publish.
CorrelationPropagates ==
    ev.observed # <<>> => ev.observed = <<ev.ambient>>

\* C16, for DomainEvents: whenever the listener invokes probe with a
\* DomainEvent, get_correlation_id() in probe gives the correlation_id of the
\* event's metadata, the id given or ambient when the event was constructed.
CorrelationFromMetadata ==
    (ev.observed # <<>> /\ made[ev.id].domain) =>
        ev.observed = <<made[ev.id].correlation_id>>

\* probe was invoked with a DomainEvent whose metadata holds an id that is
\* neither the module's default nor the publisher's ambient id at publish
CorrelationFromMetadataSeen ==
    /\ ev.observed # <<>>
    /\ made[ev.id].domain
    /\ made[ev.id].correlation_id \notin {DefaultId, ev.ambient}
    /\ ev.observed = <<made[ev.id].correlation_id>>

\* C17: in every task get_correlation_id() gives what that task itself last
\* set, or, if it has set nothing, what its parent's context held when the
\* task was spawned (the module's default for the caller tasks): no set of a
\* sibling, of the parent or of the listener task is ever seen.
ContextPerTask ==
    \A u \in Contexts : get_correlation_id(u) = own[u]

\* the listener task, spawned by a caller that had set an id, has adopted
\* another id from a message and called probe; the caller and its sibling
\* still read their own, different ids
ContextPerTaskSeen ==
    /\ ev.observed # <<>>
    /\ \E t \in Tasks :
          /\ task[t].op = "subscribe"
          /\ get_correlation_id(t) \notin {DefaultId, get_correlation_id("listener")}
          /\ \A u \in Tasks \ {t} :
                get_correlation_id(u) \notin {get_correlation_id(t),
                                              get_correlation_id("listener")}

\* a step that leaves the wrapped bus untouched, invokes nothing and gives
\* its caller no error
QuietStep ==
    /\ UNCHANGED <<memVars, redisVars>>
    /\ ev'.calls = ev.calls
    /\ \A t \in Tasks : task'[t].res \in {"none", "ok"}

\* a call on LoggingEventBus(inner) does what the same call on inner does;
\* LoggingEventBus(None) does nothing
Transparent == IF inner_bus THEN NextInner ELSE QuietStep

\* C18 as stated: whatever is published, every step of a run on
\* LoggingEventBus(inner) is the step the same call makes on inner, with the
\* same result for the caller; with no inner bus no call raises and no
\* handler is invoked.
LoggingTransparent == [][Transparent]_vars

\* C18, for events that are DomainEvents: every step of a run on
\* LoggingEventBus(inner) is the step the same call makes on inner, with the
\* same handler invocations and the same result or error for the caller; with
\* no inner bus no call raises and no handler is invoked.
LoggingTransparentForDomainEvents ==
    [][(\A e \in 1..Len(made') : made'[e].domain) => Transparent]_vars

\* through the logging bus, probe was subscribed to the Redis bus and invoked
\* with a DomainEvent, whose publish gave its caller the Redis bus's PublishError
LoggingTransparentSeen ==
    /\ inner_bus
    /\ \A e \in 1..Len(made) : made[e].domain
    /\ nEvents = MaxEvents
    /\ impl = "Redis"
    /\ ev.regAt = "subscribed"
    /\ ev.calls = 1
    /\ ev.res = "PublishError"

\* C20: once the connection has been re-established by a publish (a second
\* pool exists), an event published to the server while probe is subscribed
\* reaches probe: as PUBLISH returns, the event has been handed to probe or is
\* on its way to a listener task that is alive.
ReconnectKeepsSubscriptions ==
    \A t \in Tasks :
        (/\ task[t].pc = "xadd"
         /\ task[t].ev = ev.id
         /\ ev.regAt = "subscribed"
         /\ connection_pool >= 2)
        => \/ ev.calls >= 1
           \/ ev.id \in InFlight /\ listener.pc \in {"listen", "dispatch"}

\* unsubscribe(T, h) is called by task t and removes a handler
RemovalStep(t) ==
    /\ RedisBus
    /\ budget'.calls = budget.calls + 1
    /\ task'[t].op = "unsubscribe"
    /\ ~task'[t].noop

\* the registry after one occurrence of h is taken from the list of name
Without(name, h) ==
    IF ListRemove(handlers[name], h) = <<>> THEN DictDel(handlers, name)
    ELSE DictSet(handlers, name, ListRemove(handlers[name], h))

\* C22: Redis bus: an unsubscribe(T, h) that removes h issues the channel
\* unsubscribe exactly when the removal leaves T's list empty, and the channel
\* leaves the tracked set when that unsubscribe returns; the tracked set
\* shrinks in no other way.  A removal that leaves handlers returns at once,
\* with the tracked set and the server's subscriptions as they were and the
\* other handlers of the list in place.
UnsubscribeBookkeeping ==
    [][/\ \A t \in Tasks : RemovalStep(t) =>
             \E name \in DOMAIN handlers : \E h \in Handlers :
                /\ InList(handlers[name], h)
                /\ handlers' = Without(name, h)
                /\ server' = server
                /\ subscribed_channels' = subscribed_channels
                /\ IF ListRemove(handlers[name], h) = <<>>
                   THEN /\ task'[t].pc = "punsub"
                        /\ TypeName(task'[t].ty) = name
                   ELSE /\ task'[t].pc = "idle"
                        /\ task'[t].res = "ok"
       /\ \A t \in Tasks : (task[t].pc = "punsub" /\ task'[t].pc = "idle"
                                /\ task'[t].res = "ok") =>
             /\ subscribed_channels' = subscribed_channels \ {_get_channel_name(task[t].ty)}
             /\ server'.subs = server.subs \ {_get_channel_name(task[t].ty)}
             /\ handlers' = handlers
       /\ subscribed_channels' # subscribed_channels /\ subscribed_channels' \subseteq subscribed_channels =>
             \E t \in Tasks : task[t].pc = "punsub" /\ task'[t].res = "ok"]_vars

\* one of two handlers of a type has been removed: the other is registered,
\* the channel tracked and subscribed
UnsubscribeBookkeepingSeen ==
    /\ RedisBus
    /\ task["t1"].op = "unsubscribe"
    /\ task["t1"].pc = "idle"
    /\ task["t1"].res = "ok"
    /\ ~task["t1"].noop
    /\ \E T \in classes :
          /\ reg[T] = "unsubscribed"
          /\ DictGet(handlers, TypeName(T)) = <<"h2">>
          /\ _get_channel_name(T) \in subscribed_channels
          /\ _get_channel_name(T) \in server.subs

\* C23: in-memory bus: when publish(e) has returned, no handler invocation
\* made for e is pending or running: each has returned or raised.
PublishAwaitsHandlers ==
    (MemBus /\ PublishEnded) => ev.pending = 0

\* publish has returned after two handlers ran, probe and one that raised
PublishAwaitsHandlersSeen ==
    /\ MemBus
    /\ PublishEnded
    /\ ev.calls = 1
    /\ ev.raised
    /\ ev.pending = 0

\* subscribe(T, h), called by task t, ends with an error
FailedSubscribeStep(t) ==
    /\ RedisBus
    /\ task[t].op = "subscribe"
    /\ task[t].pc # "idle"
    /\ task'[t].pc = "idle"
    /\ task'[t].res # "ok"

\* the registry as it was when task t, the only caller, called subscribe: a
\* call that has reached pubsub.subscribe has appended its handler
BeforeSubscribe(t) ==
    LET name == TypeName(task[t].ty)
        hs == handlers[name]
    IN  IF task[t].pc # "psub" THEN handlers
        ELSE IF Len(hs) = 1 THEN DictDel(handlers, name)
        ELSE DictSet(handlers, name, SubSeq(hs, 1, Len(hs) - 1))

\* C28: Redis bus: when subscribe(T, h) raises, the handler registry and the
\* tracked channels are what they were before the call.
FailedSubscribeChangesNothing ==
    [][\A t \in Tasks : FailedSubscribeStep(t) =>
          /\ handlers' = BeforeSubscribe(t)
          /\ subscribed_channels' = subscribed_channels]_vars

\* publish of the observed event has raised
PublishRaised == RedisBus /\ Observed /\ ev.res \in {"PublishError", "EventBusError"}

\* the stream of the observed event's type holds an entry made from it
InStream ==
    InList(DictGet(server.stream, _get_stream_name(ev.ty)),
           XaddFields(_serialize_event(ev.ty, ev.id)))

\* C29 (as stated): when publish(e) raises, the server has not got e on the
\* channel, no handler has been invoked with it and the stream has no entry
\* for it.
PublishAllOrNothing ==
    PublishRaised => (ev.sent = <<>> /\ ev.calls = 0 /\ ~InStream)

\* C29: when publish(e) raises, the stream has no entry for e; the server has
\* got e on the channel (and a live subscriber may receive it) exactly when
\* the step that failed is the stream append.
PublishRaisedNotStored ==
    PublishRaised =>
        /\ ~InStream
        /\ ev.sent # <<>> <=> ev.failed = "stream"
        /\ ev.calls > 0 => ev.failed = "stream"

\* the stream append failed and publish raised, yet probe was invoked with
\* the event
PublishRaisedNotStoredSeen ==
    /\ PublishRaised
    /\ ev.failed = "stream"
    /\ ev.res = "PublishError"
    /\ ev.calls = 1
    /\ ~InStream

\* a listener task is alive
ListenerRunning == listener.pc \in {"listen", "dispatch"}

\* subscribe, called by task t, returns without raising
SubscribeReturns(t) ==
    /\ RedisBus
    /\ task[t].op = "subscribe"
    /\ task[t].pc # "idle"
    /\ task'[t].pc = "idle"
    /\ task'[t].res = "ok"

\* C27: Redis bus: while the bus has not been closed, channels are tracked and
\* no call is in progress, a listener task is running; and a subscribe that
\* returns once the listener loop has ended leaves a listener running.
ListenerAvailable ==
    [][/\ (RedisBus /\ life'.closes = 0 /\ subscribed_channels' # {}
            /\ \A t \in Tasks : task'[t].pc = "idle") => ListenerRunning'
       /\ \A t \in Tasks :
            (SubscribeReturns(t) /\ life.closes = 0 /\ listener.pc = "done")
                => ListenerRunning']_vars

\* the listener begins the dispatch of a message
DispatchBegins == listener'.pc = "dispatch" /\ listener'.ev # listener.ev

\* C24: Redis bus, one publisher: the listener takes the messages in the
\* order of their arrival, begins the dispatch of a message only when the
\* dispatch of the one before has ended, and probe gets the events it gets in
\* the order in which they were published.
DeliveryInOrder ==
    [][/\ RedisBus => ~ev'.disorder
       /\ DispatchBegins =>
             /\ listener.pc = "listen"
             /\ server.inbox # <<>>
             /\ listener'.ev = EventOf(_deserialize_event(Head(server.inbox).data))
             /\ server'.inbox = Tail(server.inbox)]_vars

\* two events were published while probe was subscribed: probe has got the
\* first, its dispatch has ended, and now probe has got the second
DeliveryInOrderSeen ==
    /\ RedisBus
    /\ ev.id = 1
    /\ ev.calls = 1
    /\ ev.dispatched
    /\ listener.pc = "dispatch"
    /\ listener.ev = 2
    /\ listener.idx = 2
    /\ DispatchList = <<probe>>

\* C26: Redis bus: probe was subscribed for the class of the observed event
\* when it was published, and no subscribe or unsubscribe has named probe
\* since, whatever was called for other handlers of the class meanwhile: once
\* the dispatch of the event's message has ended, probe has been invoked with
\* it exactly once; during the dispatch, at most once.  (Stated for runs in
\* which no Redis call fails and no two classes share a name.)
DispatchRobust ==
    (RedisBus /\ DistinctNames /\ budget.faults = 0 /\ Observed
     /\ ev.regAt = "subscribed") =>
        /\ ev.calls <= 1
        /\ ev.dispatched => ev.calls = 1

\* C25: Redis bus: whenever no call is in progress, a class that has handlers
\* in the registry has its channel tracked and subscribed on the server,
\* however the subscribe and unsubscribe calls of two tasks were interleaved:
\* no registered handler is left without a channel subscription.
RegistryHasChannels ==
    (RedisBus /\ \A t \in Tasks : task[t].pc = "idle") =>
        \A T \in classes :
            DictGet(handlers, TypeName(T)) # <<>>
                => /\ _get_channel_name(T) \in subscribed_channels
                   /\ _get_channel_name(T) \in server.subs

\* task t awaits a liveness probe on the client of a pool that another task
\* has replaced since, and the bus is connected again
StaleProbe(t) ==
    /\ RedisBus
    /\ task[t].pc = "ping"
    /\ task[t].probed < connection_pool
    /\ connected

\* C30: Redis bus: when the probe of a task returns, whatever its outcome,
\* after another task has re-established the connection, the bus stays
\* connected and no further pool is created.
ReconnectOnce ==
    [][\A t \in Tasks : (StaleProbe(t) /\ task'[t].pc # "ping") =>
          /\ connected'
          /\ connection_pool' = connection_pool]_vars

\* the _message_listener tasks that have not ended
LiveListeners ==
    (IF listener.pc \in {"listen", "dispatch", "cancelling"} THEN 1 ELSE 0)
    + strays.ending + strays.alive

\* C21: Redis bus: at any time at most one _message_listener task has not
\* ended, however the subscribe, unsubscribe and close calls of two tasks are
\* interleaved: a listener is started only when none is running.
OneListener == RedisBus => LiveListeners <= 1

====
